---- MODULE Spec2Model ----
(***************************************************************************)
(* Model of improver/utilities/neighbourhood_tools.py: rolling_window,     *)
(* pad_and_roll, pad_boxsum and boxsum; and of process() of                *)
(* improver/cli/probabilities_to_realizations.py.                          *)
(*                                                                         *)
(* An array is a record [shape, data]: shape is the tuple of axis lengths  *)
(* and data the cells in C (row-major) order, data[k + 1] being the cell   *)
(* at flat offset k.  Index tuples hold 0-based coordinates, as in numpy.  *)
(* Strides are counted in cells (numpy's byte strides divided by the item  *)
(* size).  Cell values are integers.                                       *)
(***************************************************************************)
EXTENDS Integers, Sequences, FiniteSets, TLC

VARIABLES grid, padded, call, ret, pc, writes, proc

vars == <<grid, padded, call, ret, pc, writes, proc>>

(* ---------------------------- bounds ----------------------------------- *)

\* longest spatial axis of the caller's grid
MaxDim == 4
\* largest leading batch axis of a 3-D grid
MaxBatch == 2
\* largest box extent handed to pad_boxsum / boxsum
MaxBox == 5
\* largest window extent handed to rolling_window / pad_and_roll
MaxWin == 3
\* largest entry of a boxsize given as a pair
MaxPair == 3
\* longest spatial axis of the behaviours that write through views
MaxViewDim == 3
\* largest window extent of the behaviours that write through views
MaxViewWin == 2
\* largest leading batch axis of the behaviours that write through views
MaxViewBatch == 1
\* number of writes through views in one behaviour
MaxWrites == 1
\* largest realizations_count handed to process
MaxCount == 2
\* most points on the realization coordinate of a raw forecast
MaxPoints == 2
\* largest random_seed handed to process
MaxSeed == 1

(* ------------------------- index arithmetic ---------------------------- *)

RECURSIVE Prod(_)
Prod(s) == IF s = <<>> THEN 1 ELSE Head(s) * Prod(Tail(s))

RECURSIVE SumSeq(_)
SumSeq(s) == IF s = <<>> THEN 0 ELSE Head(s) + SumSeq(Tail(s))

Min(a, b) == IF a < b THEN a ELSE b
Max(a, b) == IF a > b THEN a ELSE b

\* ndarray.strides of a C-contiguous array, in cells
CStrides(shape) ==
    [a \in 1..Len(shape) |-> Prod(SubSeq(shape, a + 1, Len(shape)))]

\* flat offset addressed by an index tuple under the given strides
Offset(idx, strides) == SumSeq([a \in 1..Len(idx) |-> idx[a] * strides[a]])

\* index tuple of the cell at flat offset k of a C-contiguous array whose
\* strides are st
UnravelS(k, shape, st) == [a \in 1..Len(shape) |-> (k \div st[a]) % shape[a]]

Unravel(k, shape) == UnravelS(k, shape, CStrides(shape))

\* every index tuple of an array of the given shape
Indices(shape) == {Unravel(k, shape) : k \in 0..(Prod(shape) - 1)}

\* arr[idx]
At(arr, idx) == arr.data[Offset(idx, CStrides(arr.shape)) + 1]

\* the array of the given shape whose cell idx holds F(idx)
MkArray(shape, F(_)) ==
    LET st == CStrides(shape)
    IN  [shape |-> shape,
         data  |-> [k \in 1..Prod(shape) |-> F(UnravelS(k - 1, shape, st))]]

NoArray == [shape |-> <<>>, data |-> <<>>]

(* ------------------------------ numpy.pad ------------------------------ *)

PadModes == {"constant", "edge"}

\* numpy.pad(array, pad_width, mode=...): pad_width[a] = <<before, after>>.
\* "constant" fills with constant_values' default 0, "edge" repeats the
\* nearest edge cell.  The result is a new array.
np_pad(arr, pad_width, mode) ==
    LET nd == Len(arr.shape)
        shp == arr.shape
        newshape == [a \in 1..nd |->
                        arr.shape[a] + pad_width[a][1] + pad_width[a][2]]
        src(idx) == [a \in 1..nd |-> idx[a] - pad_width[a][1]]
        inside(s) == \A a \in 1..nd : s[a] >= 0 /\ s[a] < shp[a]
        clamp(s) == [a \in 1..nd |-> Max(0, Min(s[a], shp[a] - 1))]
        ast == CStrides(arr.shape)
        d   == arr.data
    IN  MkArray(newshape,
                LAMBDA idx :
                    IF mode = "edge"
                      THEN d[Offset(clamp(src(idx)), ast) + 1]
                    ELSE IF inside(src(idx))
                      THEN d[Offset(src(idx), ast) + 1]
                    ELSE 0)

(* --------------------------- rolling_window ---------------------------- *)

NoRet == [kind |-> "none", exc |-> "", base |-> "", shape |-> <<>>,
          strides |-> <<>>, writeable |-> FALSE, data |-> <<>>]

Raise(e) == [NoRet EXCEPT !.kind = "error", !.exc = e]

ReturnArray(arr) ==
    [NoRet EXCEPT !.kind = "array", !.shape = arr.shape, !.data = arr.data]

\* adjshp without the + 1 of line 64
AdjShapeNoPlusOne(ishape, shape) ==
    LET k  == Len(shape)
        nd == Len(ishape)
    IN  SubSeq(ishape, 1, nd - k)
        \o [a \in 1..k |-> ishape[nd - k + a] - shape[a]]
        \o shape

\* adjshp, lines 61-68
AdjShape(ishape, shape) ==
    LET k  == Len(shape)
        nd == Len(ishape)
    IN  SubSeq(ishape, 1, nd - k)
        \o [a \in 1..k |-> ishape[nd - k + a] - shape[a] + 1]
        \o shape

\* the assert of line 69 with >= for >
AdjShapeOkNonNegative(adjshp) == \A a \in 1..Len(adjshp) : adjshp[a] >= 0

\* the assert of line 69
AdjShapeOk(adjshp) == \A a \in 1..Len(adjshp) : adjshp[a] > 0

\* strides with the step of the last axis, input_array.strides[-1:], given
\* to every window axis
ViewStridesLastAxis(istrides, k) ==
    istrides \o [a \in 1..k |-> istrides[Len(istrides)]]

\* strides, line 70
ViewStrides(istrides, k) ==
    istrides \o SubSeq(istrides, Len(istrides) - k + 1, Len(istrides))

\* as_strided called without writeable=: its default is True
ViewWriteableDefault(writeable) == TRUE

\* the writeable flag handed to as_strided, line 72
ViewWriteable(writeable) == writeable

\* rolling_window(input_array, shape, writeable) on the C-contiguous array
\* of shape ishape that lives in buffer base; a failed assert raises
\* AssertionError
rolling_window(base, ishape, shape, writeable) ==
    IF ~(Len(ishape) >= Len(shape)) THEN Raise("AssertionError")
    ELSE LET adjshp == AdjShape(ishape, shape)
         IN  IF ~AdjShapeOk(adjshp)
             THEN Raise("AssertionError")
             ELSE [NoRet EXCEPT !.kind = "view", !.base = base,
                                !.shape = adjshp,
                                !.strides = ViewStrides(CStrides(ishape),
                                                        Len(shape)),
                                !.writeable = ViewWriteable(writeable)]

(* ----------------------------- pad_and_roll ---------------------------- *)

\* pad_extent, lines 104-105; a list times a negative number is empty
PadExtent(nd, shape) ==
    [a \in 1..Max(0, nd - Len(shape)) |-> <<0, 0>>]
    \o [a \in 1..Len(shape) |-> <<shape[a] \div 2, shape[a] \div 2>>]

\* the padded copy made at line 106; numpy.pad raises ValueError when
\* pad_extent has more entries than the array has axes
PadForRoll(arr, shape, mode) ==
    IF Len(PadExtent(Len(arr.shape), shape)) # Len(arr.shape) THEN NoArray
    ELSE np_pad(arr, PadExtent(Len(arr.shape), shape), mode)

\* pad_and_roll(input_array, shape, mode=mode, writeable=writeable): the
\* padded copy and the value returned
pad_and_roll(arr, shape, mode, writeable) ==
    LET p == PadForRoll(arr, shape, mode)
    IN  [padded |-> p,
         ret    |-> IF p = NoArray THEN Raise("ValueError")
                    ELSE rolling_window("padded", p.shape, shape, writeable)]

(* ------------------------------ pad_boxsum ----------------------------- *)

\* A boxsize argument is [kind |-> "int", v |-> b] for an integer b,
\* [kind |-> "pair", v |-> <<i, j>>] for a pair, and [kind |-> "array", v |->
\* entries] for a 1-D array.  numpy.atleast_1d(boxsize), as the tuple of the
\* entries of the array it returns: an integer becomes a one-entry array, a
\* pair a two-entry array, an array is returned as it is
atleast_1d(boxsize) == IF boxsize.kind = "int" THEN <<boxsize.v>> ELSE boxsize.v

AsArray(entries) == [kind |-> "array", v |-> entries]

\* padding with the same border on both sides, as pad_and_roll pads
BoxPaddingSymmetric(nd, bs) ==
    LET ih == bs[1] \div 2
        jh == bs[Len(bs)] \div 2
    IN  [a \in 1..(nd - 2) |-> <<0, 0>>]
        \o << <<ih, ih>>, <<jh, jh>> >>

\* padding, lines 125-126
BoxPadding(nd, bs) ==
    LET ih == bs[1] \div 2
        jh == bs[Len(bs)] \div 2
    IN  [a \in 1..(nd - 2) |-> <<0, 0>>]
        \o << <<ih + 1, ih>>, <<jh + 1, jh>> >>

pad_boxsum(data, boxsize, mode) ==
    np_pad(data, BoxPadding(Len(data.shape), atleast_1d(boxsize)), mode)

(* -------------------------------- boxsum ------------------------------- *)

\* data[k] plus the c cells before it at distance st: one entry of a
\* running sum along an axis of stride st
RECURSIVE RunSum(_, _, _, _)
RunSum(data, k, st, c) ==
    IF c = 0 THEN data[k] ELSE data[k] + RunSum(data, k - st, st, c - 1)

\* ndarray.cumsum(axis) for a negative axis: a new array, each cell the sum
\* of the cells up to it along that axis
CumSum(arr, axis) ==
    LET p  == Len(arr.shape) + axis + 1
        st == CStrides(arr.shape)[p]
        n  == arr.shape[p]
        d  == arr.data
    IN  [shape |-> arr.shape,
         data  |-> [k \in 1..Len(d) |-> RunSum(d, k, st, ((k - 1) \div st) % n)]]

\* accumulation whatever the cumsum flag says
AccumulateAlways(data, cumsum) ==
    CHOOSE T \in {CumSum(c, -1) : c \in {CumSum(data, -2)}} : TRUE

\* accumulation along axis 0 for axis -2
AccumulateAxis0(data, cumsum) ==
    IF cumsum
    THEN CHOOSE T \in {CumSum(c, -1) :
                         c \in {CumSum(data, 0 - Len(data.shape))}} : TRUE
    ELSE data

\* lines 191-192
\* (the intermediate array is bound to a variable so that it is computed once)
Accumulate(data, cumsum) ==
    IF cumsum
    THEN CHOOSE T \in {CumSum(c, -1) : c \in {CumSum(data, -2)}} : TRUE
    ELSE data

\* lines 189-190; mode "none" stands for a call without pad options
BoxPad(data, bs, mode) ==
    IF mode # "none" THEN pad_boxsum(data, AsArray(bs), mode) ELSE data

\* Python's start:stop on an axis of length len, as <<first, count>>;
\* a negative bound counts from the end and every bound is clipped
PySlice(start, stop, len) ==
    LET norm(x) == IF x < 0 THEN Max(x + len, 0) ELSE Min(x, len)
    IN  <<norm(start), Max(norm(stop) - norm(start), 0)>>

\* length of an axis after numpy broadcasts lengths x and y, -1 when they
\* cannot be broadcast (ValueError)
BroadcastDim(x, y) ==
    IF x = y THEN x
    ELSE IF x = 1 THEN y
    ELSE IF y = 1 THEN x
    ELSE -1

\* the four slices with the first one starting a row early, i - 1 for i
BoxTermsRowEarly(rows, cols, i, j) ==
    LET m == rows - i
        n == cols - j
    IN  << <<PySlice(i - 1, i - 1 + m, rows), PySlice(j, j + n, cols)>>,
           <<PySlice(0, m, rows),     PySlice(j, j + n, cols)>>,
           <<PySlice(0, m, rows),     PySlice(0, n, cols)>>,
           <<PySlice(i, i + m, rows), PySlice(0, n, cols)>> >>

\* the four slices of lines 196-199 as <<row slice, column slice>>
BoxTerms(rows, cols, i, j) ==
    LET m == rows - i
        n == cols - j
    IN  << <<PySlice(i, i + m, rows), PySlice(j, j + n, cols)>>,
           <<PySlice(0, m, rows),     PySlice(j, j + n, cols)>>,
           <<PySlice(0, m, rows),     PySlice(0, n, cols)>>,
           <<PySlice(i, i + m, rows), PySlice(0, n, cols)>> >>

\* shape of the last two axes of t1 - t2 + t3 - t4, evaluated left to right
BoxResultDims(t) ==
    LET step(s, x) ==
            IF s[1] = -1 \/ s[2] = -1 THEN <<-1, -1>>
            ELSE <<BroadcastDim(s[1], x[1][2]), BroadcastDim(s[2], x[2][2])>>
        s1 == <<t[1][1][2], t[1][2][2]>>
    IN  step(step(step(s1, t[2]), t[3]), t[4])

\* lines 193-201 on the table T
BoxDifference(T, bs) ==
    LET nd   == Len(T.shape)
        rows == T.shape[nd - 1]
        cols == T.shape[nd]
        t    == BoxTerms(rows, cols, bs[1], bs[Len(bs)])
        dims == BoxResultDims(t)
        st   == CStrides(T.shape)
        d    == T.data
        rshape == SubSeq(T.shape, 1, nd - 2) \o dims
        rst    == CStrides(rshape)
        term(q, idx) ==
            d[1 + Offset([a \in 1..nd |->
                     IF a = nd - 1
                       THEN t[q][1][1] + (IF t[q][1][2] = 1 THEN 0 ELSE idx[a])
                     ELSE IF a = nd
                       THEN t[q][2][1] + (IF t[q][2][2] = 1 THEN 0 ELSE idx[a])
                     ELSE idx[a]], st)]
    IN  IF dims[1] = -1 \/ dims[2] = -1 THEN Raise("ValueError")
        ELSE ReturnArray(
               [shape |-> rshape,
                data  |-> [k \in 1..Prod(rshape) |->
                             term(1, UnravelS(k - 1, rshape, rst))
                             - term(2, UnravelS(k - 1, rshape, rst))
                             + term(3, UnravelS(k - 1, rshape, rst))
                             - term(4, UnravelS(k - 1, rshape, rst))]])

boxsum(data, boxsize, cumsum, mode) ==
    LET bs == atleast_1d(boxsize)
    IN  CHOOSE result \in
            {BoxDifference(T, bs) :
                T \in {Accumulate(p, cumsum) : p \in {BoxPad(data, bs, mode)}}} :
            TRUE

(* ------------------------------ the caller ----------------------------- *)

Patterns == {"ones", "mix"}

\* cell k of the caller's grid under a fill pattern
Fill(p, k) == IF p = "ones" THEN 1 ELSE (k * k + 1) % 7

MkGrid(shape, p) ==
    [shape |-> shape, data |-> [k \in 1..Prod(shape) |-> Fill(p, k - 1)]]

\* 2-D grids, and 3-D grids with a leading batch axis
Shapes2(maxdim) == {<<r, c>> : r \in 1..maxdim, c \in 1..maxdim}
Shapes3(maxbatch, maxdim) ==
    {<<b, r, c>> : b \in 1..maxbatch, r \in 1..maxdim, c \in 1..maxdim}

\* window shapes for an nd-axis grid: up to nd entries, and windows with
\* one entry more than the grid has axes
Windows(nd) ==
    UNION {[1..k -> 1..MaxWin] : k \in 1..nd}
    \cup {[a \in 1..(nd + 1) |-> w] : w \in 1..MaxWin}

\* boxsize arguments: an integer or a pair of integers
BoxSizes ==
    {[kind |-> "int", v |-> b] : b \in 1..MaxBox}
    \cup {[kind |-> "pair", v |-> p] : p \in (1..MaxPair) \X (1..MaxPair)}

NoCall == [op |-> "none", win |-> <<>>, box |-> AsArray(<<>>), cumsum |-> FALSE,
           mode |-> "none", writeable |-> FALSE]

\* the writes made so far: their number, and the last one (index, value,
\* and whether numpy accepted it)
NoWrite == [n |-> 0, idx |-> <<>>, val |-> 0, ok |-> FALSE]

\* Python's None and a value that is not None
None == [some |-> FALSE, v |-> 0]
Some(x) == [some |-> TRUE, v |-> x]

\* no call of process is in progress
NoProc == [pc |-> "idle", raw_forecast |-> None, realizations_count |-> None,
           reorder |-> FALSE, rebadge |-> FALSE, random_seed |-> None,
           ignore_ecc_bounds |-> FALSE, cube |-> "", result |-> None,
           exc |-> "", calls |-> <<>>]

Init ==
    /\ grid \in {MkGrid(sh, p) : sh \in Shapes2(MaxDim), p \in Patterns}
               \cup {MkGrid(sh, "mix") : sh \in Shapes3(MaxBatch, MaxDim)}
    /\ padded = NoArray
    /\ call = NoCall
    /\ ret = NoRet
    /\ pc = "idle"
    /\ writes = NoWrite
    /\ proc = NoProc

\* view = rolling_window(grid, shape, writeable=writeable)
CallRollingWindow(shape, writeable) ==
    /\ pc = "idle"
    /\ ret' = rolling_window("grid", grid.shape, shape, writeable)
    /\ call' = [NoCall EXCEPT !.op = "rolling_window", !.win = shape,
                              !.writeable = writeable]
    /\ pc' = "returned"
    /\ UNCHANGED <<grid, padded, writes, proc>>

\* view = pad_and_roll(grid, shape, mode=mode, writeable=writeable)
CallPadAndRoll(shape, mode, writeable) ==
    /\ pc = "idle"
    /\ LET r == pad_and_roll(grid, shape, mode, writeable)
       IN  padded' = r.padded /\ ret' = r.ret
    /\ call' = [NoCall EXCEPT !.op = "pad_and_roll", !.win = shape,
                              !.mode = mode, !.writeable = writeable]
    /\ pc' = "returned"
    /\ UNCHANGED <<grid, writes, proc>>

\* result = pad_boxsum(grid, boxsize, mode=mode)
CallPadBoxsum(boxsize, mode) ==
    /\ pc = "idle"
    /\ ret' = ReturnArray(pad_boxsum(grid, boxsize, mode))
    /\ call' = [NoCall EXCEPT !.op = "pad_boxsum", !.box = boxsize,
                              !.mode = mode]
    /\ pc' = "returned"
    /\ UNCHANGED <<grid, padded, writes, proc>>

\* result = boxsum(grid, boxsize, cumsum=cumsum[, mode=mode])
CallBoxsum(boxsize, cumsum, mode) ==
    /\ pc = "idle"
    /\ ret' = boxsum(grid, boxsize, cumsum, mode)
    /\ call' = [NoCall EXCEPT !.op = "boxsum", !.box = boxsize,
                              !.cumsum = cumsum, !.mode = mode]
    /\ pc' = "returned"
    /\ UNCHANGED <<grid, padded, writes, proc>>

\* the caller drops the returned value
Return ==
    /\ pc = "returned"
    /\ pc' = "idle"
    /\ ret' = NoRet
    /\ call' = NoCall
    /\ padded' = NoArray
    /\ UNCHANGED <<grid, writes, proc>>

\* view[idx] = val, val being minus the number of the write.  numpy raises
\* ValueError (assignment destination is read-only) on a view that is not
\* writeable and stores nothing.
WriteView(idx) ==
    /\ pc = "returned"
    /\ ret.kind = "view"
    /\ writes.n < MaxWrites
    /\ LET val == 0 - (writes.n + 1)
           off == Offset(idx, ret.strides)
       IN  /\ writes' = [n |-> writes.n + 1, idx |-> idx, val |-> val,
                         ok |-> ret.writeable]
           /\ grid' = IF ret.writeable /\ ret.base = "grid"
                      THEN [grid EXCEPT !.data[off + 1] = val] ELSE grid
           /\ padded' = IF ret.writeable /\ ret.base = "padded"
                        THEN [padded EXCEPT !.data[off + 1] = val] ELSE padded
    /\ UNCHANGED <<call, ret, pc, proc>>

Next ==
    \/ \E w \in Windows(Len(grid.shape)), wr \in BOOLEAN :
          CallRollingWindow(w, wr)
    \/ \E w \in Windows(Len(grid.shape)), md \in PadModes, wr \in BOOLEAN :
          CallPadAndRoll(w, md, wr)
    \/ \E b \in BoxSizes, md \in PadModes : CallPadBoxsum(b, md)
    \/ \E b \in BoxSizes, cs \in BOOLEAN, md \in PadModes \cup {"none"} :
          CallBoxsum(b, cs, md)
    \/ Return

Spec == Init /\ [][Next]_vars

(* -------------------- behaviours that write through views -------------- *)

InitView ==
    /\ grid \in {MkGrid(sh, "mix") :
                    sh \in Shapes2(MaxViewDim)
                           \cup Shapes3(MaxViewBatch, MaxViewDim)}
    /\ padded = NoArray
    /\ call = NoCall
    /\ ret = NoRet
    /\ pc = "idle"
    /\ writes = NoWrite
    /\ proc = NoProc

\* windows over the two spatial axes
ViewWindows == [1..2 -> 1..MaxViewWin]

\* one view of the grid and the writes made through it
NextView ==
    \/ \E w \in ViewWindows, wr \in BOOLEAN : CallRollingWindow(w, wr)
    \/ \E idx \in Indices(ret.shape) : WriteView(idx)

SpecView == InitView /\ [][NextView]_vars

(* ------------- cli/probabilities_to_realizations.process --------------- *)

\* A raw forecast cube is the number of points on its realization
\* coordinate, 0 standing for a cube without that coordinate
RawForecasts == {None} \cup {Some(n) : n \in 0..MaxPoints}

RealizationsCounts == {None} \cup {Some(n) : n \in 1..MaxCount}

RandomSeeds == {None} \cup {Some(n) : n \in 0..MaxSeed}

\* process(cube, raw_forecast, realizations_count=..., reorder=...,
\* rebadge=..., random_seed=..., ignore_ecc_bounds=...) is entered; cube is
\* the cube of probabilities
InitProcess ==
    /\ grid = NoArray
    /\ padded = NoArray
    /\ call = NoCall
    /\ ret = NoRet
    /\ pc = "idle"
    /\ writes = NoWrite
    /\ proc \in {[NoProc EXCEPT !.pc = "rebadge_checks",
                                !.cube = "probabilities",
                                !.raw_forecast = rf,
                                !.realizations_count = rc,
                                !.reorder = ro, !.rebadge = rb,
                                !.random_seed = seed,
                                !.ignore_ecc_bounds = ig] :
                    rf \in RawForecasts, rc \in RealizationsCounts,
                    ro \in BOOLEAN, rb \in BOOLEAN, seed \in RandomSeeds,
                    ig \in BOOLEAN}

\* raise e: the call ends without a result
ProcRaise(e) == [proc EXCEPT !.pc = "raised", !.exc = e]

\* the guard under which lines 111-113 raise: realizations_count is None
\* (line 109) and raw_forecast is None (line 110)
RawForecastMissing(realizations_count, raw_forecast) ==
    ~realizations_count.some /\ ~raw_forecast.some

\* lines 100-104
RebadgeChecks ==
    /\ proc.pc = "rebadge_checks"
    /\ proc' = IF proc.rebadge /\ proc.raw_forecast.some
                 THEN ProcRaise("RuntimeError")
               ELSE IF proc.rebadge /\ proc.random_seed.some
                 THEN ProcRaise("RuntimeError")
               ELSE [proc EXCEPT !.pc = "branch"]
    /\ UNCHANGED <<grid, padded, call, ret, pc, writes>>

\* lines 106-119 and the test of line 126: under reorder a missing
\* realizations_count is read from the raw forecast; without reorder and
\* rebadge control goes to the return statement
Branch ==
    /\ proc.pc = "branch"
    /\ proc' =
         IF proc.reorder
         THEN IF RawForecastMissing(proc.realizations_count, proc.raw_forecast)
                THEN ProcRaise("RuntimeError")
              ELSE IF ~proc.realizations_count.some /\ proc.raw_forecast.v = 0
                THEN ProcRaise("RuntimeError")
              ELSE [proc EXCEPT
                      !.pc = "percentiles",
                      !.realizations_count =
                          IF proc.realizations_count.some
                          THEN proc.realizations_count
                          ELSE Some(proc.raw_forecast.v)]
         ELSE IF proc.rebadge THEN [proc EXCEPT !.pc = "percentiles"]
         ELSE [proc EXCEPT !.pc = "return"]
    /\ UNCHANGED <<grid, padded, call, ret, pc, writes>>

\* lines 121-123 and 127-129: the percentiles are generated from the
\* probabilities; the plugin returns the cube of percentiles or raises
GeneratePercentiles(ok) ==
    /\ proc.pc = "percentiles"
    /\ proc' =
         LET called == [proc EXCEPT
                          !.calls = @ \o <<"GeneratePercentilesFromProbabilities">>]
         IN  IF ok
             THEN [called EXCEPT !.cube = "percentiles",
                                 !.pc = IF proc.reorder THEN "reordering"
                                        ELSE "rebadging"]
             ELSE [called EXCEPT !.pc = "raised", !.exc = "plugin error"]
    /\ UNCHANGED <<grid, padded, call, ret, pc, writes>>

\* lines 124-125: the percentiles are reordered after raw_forecast; the
\* plugin returns the realizations or raises
Reordering(ok) ==
    /\ proc.pc = "reordering"
    /\ proc' =
         LET called == [proc EXCEPT !.calls = @ \o <<"EnsembleReordering">>]
         IN  IF ok
             THEN [called EXCEPT !.result = Some(proc.realizations_count.v),
                                 !.pc = "return"]
             ELSE [called EXCEPT !.pc = "raised", !.exc = "plugin error"]
    /\ UNCHANGED <<grid, padded, call, ret, pc, writes>>

\* line 130: the percentiles are rebadged as realizations
Rebadging(ok) ==
    /\ proc.pc = "rebadging"
    /\ proc' =
         LET called == [proc EXCEPT
                          !.calls = @ \o <<"RebadgePercentilesAsRealizations">>]
         IN  IF ok
             THEN [called EXCEPT !.result = Some(0), !.pc = "return"]
             ELSE [called EXCEPT !.pc = "raised", !.exc = "plugin error"]
    /\ UNCHANGED <<grid, padded, call, ret, pc, writes>>

\* line 131: result is unbound when neither reorder nor rebadge was chosen
ReturnResult ==
    /\ proc.pc = "return"
    /\ proc' = IF proc.result.some THEN [proc EXCEPT !.pc = "returned"]
               ELSE ProcRaise("UnboundLocalError")
    /\ UNCHANGED <<grid, padded, call, ret, pc, writes>>

NextProcess ==
    \/ RebadgeChecks
    \/ Branch
    \/ \E ok \in BOOLEAN : GeneratePercentiles(ok)
    \/ \E ok \in BOOLEAN : Reordering(ok)
    \/ \E ok \in BOOLEAN : Rebadging(ok)
    \/ ReturnResult

SpecProcess == InitProcess /\ [][NextProcess]_vars

(* ============================== claims ================================ *)

\* the last two entries of a shape
LastTwo(shape) == SubSeq(shape, Len(shape) - 1, Len(shape))

Returned(op) == pc = "returned" /\ call.op = op

\* the returned array's cell idx
RetAt(idx) == ret.data[Offset(idx, CStrides(ret.shape)) + 1]

\* C1: boxsum called with pad options returns an array whose last two axes
\* are as long as the last two axes of the unpadded grid, for every box
\* size (integer or pair, odd or even) and every pad policy.
C1_PaddedBoxsumKeepsShape ==
    (Returned("boxsum") /\ call.mode \in PadModes)
        => (ret.kind = "array" /\ LastTwo(ret.shape) = LastTwo(grid.shape))

\* C2: pad_and_roll(G, W) with Len(W) <= G's number of axes returns a view
\* of shape G.shape followed by W, for odd and even window extents.
C2_PadAndRollShape ==
    (Returned("pad_and_roll") /\ Len(call.win) <= Len(grid.shape))
        => (ret.kind = "view" /\ ret.shape = grid.shape \o call.win)

\* the grid extended by a pad policy, at row r and column c of a 2-D grid
Extended(g, r, c, mode) ==
    LET R == g.shape[1]
        C == g.shape[2]
    IN  IF mode = "edge"
          THEN At(g, <<Max(0, Min(r, R - 1)), Max(0, Min(c, C - 1))>>)
        ELSE IF r >= 0 /\ r < R /\ c >= 0 /\ c < C THEN At(g, <<r, c>>)
        ELSE 0

\* brute-force sum of the b x b window centred on cell (r, c)
WindowSum(g, r, c, b, mode) ==
    SumSeq([k \in 1..(b * b) |->
              Extended(g, r - (b \div 2) + ((k - 1) \div b),
                          c - (b \div 2) + ((k - 1) % b), mode)])

AllOnes(g) == \A k \in 1..Len(g.data) : g.data[k] = 1

\* a call boxsum(grid, b, mode=...) on a 2-D grid with an odd integer b
OddBoxCase ==
    /\ Returned("boxsum")
    /\ call.cumsum
    /\ call.mode \in PadModes
    /\ call.box.kind = "int"
    /\ call.box.v % 2 = 1
    /\ Len(grid.shape) = 2

\* C3: on a 2-D grid and for an odd box size b (1, 3, 5), boxsum with a pad
\* policy equals the brute-force sum of the b x b window centred on each
\* cell of the grid extended by the policy; zero padding of an all-ones
\* grid gives 4 at a corner for b = 3, edge replication gives b * b.
C3_BoxsumIsWindowSum ==
    OddBoxCase =>
        /\ ret.kind = "array"
        /\ ret.shape = grid.shape
        /\ \A idx \in Indices(grid.shape) :
              RetAt(idx) = WindowSum(grid, idx[1], idx[2], call.box.v, call.mode)
        /\ (AllOnes(grid) /\ call.mode = "edge")
              => \A idx \in Indices(grid.shape) :
                    RetAt(idx) = call.box.v * call.box.v
        /\ (AllOnes(grid) /\ call.mode = "constant" /\ call.box.v = 3
            /\ grid.shape[1] >= 2 /\ grid.shape[2] >= 2)
              => RetAt(<<0, 0>>) = 4

\* a 3 x 3 grid that is not all ones, zero padded, box size 3: the centre
\* cell holds the sum of the whole grid and a corner the sum of four cells
C3_Witness ==
    /\ OddBoxCase
    /\ call.box.v = 3
    /\ call.mode = "constant"
    /\ grid.shape = <<3, 3>>
    /\ ~AllOnes(grid)
    /\ ret.kind = "array"
    /\ RetAt(<<1, 1>>) = SumSeq(grid.data)
    /\ RetAt(<<0, 0>>) = At(grid, <<0, 0>>) + At(grid, <<0, 1>>)
                         + At(grid, <<1, 0>>) + At(grid, <<1, 1>>)

\* every one of the grid's last Len(W) axes is at least as long as the
\* window extent
Fits(gshape, W) ==
    /\ Len(W) <= Len(gshape)
    /\ \A a \in 1..Len(W) : gshape[Len(gshape) - Len(W) + a] >= W[a]

\* C4: when the window fits, rolling_window(G, W) returns a view of shape
\* G.shape[:-k] + (g - w + 1 per trailing axis) + W.
C4_RollingWindowShape ==
    (Returned("rolling_window") /\ Fits(grid.shape, call.win)) =>
        LET nd == Len(grid.shape)
            k  == Len(call.win)
        IN  /\ ret.kind = "view"
            /\ Len(ret.shape) = nd + k
            /\ \A a \in 1..(nd - k) : ret.shape[a] = grid.shape[a]
            /\ \A a \in 1..k :
                  /\ ret.shape[nd - k + a] = grid.shape[nd - k + a] - call.win[a] + 1
                  /\ ret.shape[nd + a] = call.win[a]

\* a 3-D grid windowed over its two spatial axes, one axis exactly as long
\* as the window
C4_Witness ==
    /\ Returned("rolling_window")
    /\ Fits(grid.shape, call.win)
    /\ Len(grid.shape) = 3
    /\ Len(call.win) = 2
    /\ grid.shape[3] = call.win[2]
    /\ grid.shape[2] > call.win[1]
    /\ ret.kind = "view"

\* the grid cell a view position addresses according to the claim: batch
\* indices kept, each spatial index the sum of the window's position and
\* the offset inside the window
BackingCell(idx, nd, k) ==
    [a \in 1..nd |-> IF a <= nd - k THEN idx[a] ELSE idx[a] + idx[a + k]]

\* what the view holds at idx when the grid is g
ViewRead(g, idx) == g.data[Offset(idx, ret.strides) + 1]

\* a step that writes through a writeable view made by rolling_window
GridViewWrite ==
    /\ writes'.n = writes.n + 1
    /\ call.op = "rolling_window"
    /\ call.writeable
    /\ ret.kind = "view"

C6_RollingWindowRejectsMisfit ==
    (Returned("rolling_window") /\ ~Fits(grid.shape, call.win))
        => (ret.kind = "error" /\ ret.exc = "AssertionError")

\* the window is one longer than the grid's last axis: that output axis
\* would have length 0
C6_Witness ==
    /\ Returned("rolling_window")
    /\ Len(call.win) = 2
    /\ call.win[2] = grid.shape[Len(grid.shape)] + 1
    /\ call.win[1] <= grid.shape[Len(grid.shape) - 1]
    /\ ret.kind = "error"

\* the table boxsum differences: the padded grid when pad options are given
TableShape ==
    IF call.mode \in PadModes
    THEN pad_boxsum(grid, call.box, call.mode).shape ELSE grid.shape

BoxExceedsTable ==
    LET bs == atleast_1d(call.box)
        sh == LastTwo(TableShape)
    IN  bs[1] > sh[1] \/ bs[Len(bs)] > sh[2]

\* C7: boxsum fails with a shape error, and returns no result, whenever a
\* box extent exceeds the corresponding extent of the table.
C7_BoxsumRejectsOversizeBox ==
    (Returned("boxsum") /\ BoxExceedsTable) => ret.kind = "error"

\* the summed-area table of g over its last two axes: cell (.., r, c) holds
\* the sum of the cells (.., r', c') with r' <= r and c' <= c
PrefixTable(g) ==
    LET nd == Len(g.shape)
    IN  MkArray(g.shape,
                LAMBDA idx :
                    SumSeq([q \in 1..((idx[nd - 1] + 1) * (idx[nd] + 1)) |->
                              At(g, [a \in 1..nd |->
                                       IF a = nd - 1 THEN (q - 1) \div (idx[nd] + 1)
                                       ELSE IF a = nd THEN (q - 1) % (idx[nd] + 1)
                                       ELSE idx[a]])]))

\* C8: without pad options, boxsum(T, box, cumsum=False) on the table T of
\* prefix sums of the grid equals boxsum(grid, box, cumsum=True).
C8_PreAccumulatedTable ==
    (Returned("boxsum") /\ call.cumsum /\ call.mode = "none")
        => \A T \in {PrefixTable(grid)} :
              ret = boxsum(T, call.box, FALSE, "none")

\* a call that returns a non-empty array with a cell that is not zero
C8_Witness ==
    /\ Returned("boxsum")
    /\ call.cumsum
    /\ call.mode = "none"
    /\ ret.kind = "array"
    /\ Len(ret.data) >= 4
    /\ \E k \in 1..Len(ret.data) : ret.data[k] > 0
    /\ \A T \in {PrefixTable(grid)} : ret = boxsum(T, call.box, FALSE, "none")

\* the 2-D slice g[b] of a 3-D grid
BatchSlice(g, b) ==
    LET n == g.shape[2] * g.shape[3]
    IN  [shape |-> <<g.shape[2], g.shape[3]>>,
         data  |-> SubSeq(g.data, b * n + 1, (b + 1) * n)]

\* C9: boxsum of a 3-D grid equals the stack of boxsum of each of its 2-D
\* slices, for every box size, with or without pad options.
C9_BatchIndependence ==
    (Returned("boxsum") /\ Len(grid.shape) = 3) =>
        \A b \in 0..(grid.shape[1] - 1) :
            \A one \in {boxsum(BatchSlice(grid, b), call.box,
                               call.cumsum, call.mode)} :
                /\ one.kind = ret.kind
                /\ one.exc = ret.exc
                /\ ret.kind = "array" =>
                      /\ ret.shape = <<grid.shape[1]>> \o one.shape
                      /\ one.data = SubSeq(ret.data, b * Len(one.data) + 1,
                                           (b + 1) * Len(one.data))

\* a padded box sum over a batch of two slices that differ
C9_Witness ==
    /\ Returned("boxsum")
    /\ grid.shape[1] = 2
    /\ Len(grid.shape) = 3
    /\ call.mode = "edge"
    /\ call.cumsum
    /\ ret.kind = "array"
    /\ Len(ret.data) >= 4
    /\ BatchSlice(ret, 0) # BatchSlice(ret, 1)

\* C10: no call changes a cell of the caller's grid, and the only value
\* handed back through which the grid can be written is the view of
\* rolling_window called with writeable=True.
C10_InputUnchanged ==
    [][(pc = "idle" /\ pc' = "returned") =>
          /\ grid' = grid
          /\ (ret'.kind = "view" /\ ret'.base = "grid" /\ ret'.writeable)
                => (call'.op = "rolling_window" /\ call'.writeable)
          /\ (ret'.kind = "view" /\ call'.op = "pad_and_roll")
                => (ret'.base = "padded" /\ padded' # NoArray)
    ]_vars

\* pad_and_roll asked for a writeable view: it is a view of the padded copy
C10_Witness ==
    /\ Returned("pad_and_roll")
    /\ call.writeable
    /\ ret.kind = "view"
    /\ ret.writeable
    /\ ret.base = "padded"

\* C11: whenever process is called with reorder and without a raw_forecast
\* cube, for every realizations_count (given or not), no percentile
\* generation or reordering is attempted and the call ends by raising
\* RuntimeError.
C11_ReorderNeedsRawForecast ==
    (proc.pc # "idle" /\ proc.reorder /\ ~proc.raw_forecast.some) =>
        /\ proc.calls = <<>>
        /\ proc.pc # "returned"
        /\ proc.pc = "raised" => proc.exc = "RuntimeError"

\* the sum of the cells of g in rows r0..r0+i-1 and columns c0..c0+j-1 of
\* the 2-D slice at the batch indices pre
RectSum(g, pre, r0, c0, i, j) ==
    SumSeq([q \in 1..(i * j) |->
              At(g, pre \o <<r0 + ((q - 1) \div j), c0 + ((q - 1) % j)>>)])

\* a call of boxsum without pad options whose box fits the grid
FittingBoxCase ==
    /\ Returned("boxsum")
    /\ call.mode = "none"
    /\ atleast_1d(call.box)[1] <= grid.shape[Len(grid.shape) - 1]
    /\ atleast_1d(call.box)[Len(atleast_1d(call.box))] <= grid.shape[Len(grid.shape)]

\* C12: without pad options, on a grid whose last two axes are R x C and for
\* box extents (i, j) with i <= R and j <= C, boxsum returns an array whose
\* last two axes are (R - i) x (C - j), with
\* result[r, c] = T[r+i, c+j] - T[r, c+j] + T[r, c] - T[r+i, c] for the
\* table T it differences (the summed-area table of the grid, or the grid
\* itself under cumsum=False), and when T is the summed-area table of the
\* grid this is the sum of the grid's rows r+1..r+i and columns c+1..c+j,
\* per batch index.
C12_UnpaddedBoxsumIdentity ==
    FittingBoxCase =>
        LET nd == Len(grid.shape)
            bs == atleast_1d(call.box)
            i  == bs[1]
            j  == bs[Len(bs)]
        IN  \A T \in {IF call.cumsum THEN PrefixTable(grid) ELSE grid} :
              /\ ret.kind = "array"
              /\ ret.shape = SubSeq(grid.shape, 1, nd - 2)
                             \o <<grid.shape[nd - 1] - i, grid.shape[nd] - j>>
              /\ \A idx \in Indices(ret.shape) :
                    LET pre == SubSeq(idx, 1, nd - 2)
                        r   == idx[nd - 1]
                        c   == idx[nd]
                    IN  /\ RetAt(idx) =
                              At(T, pre \o <<r + i, c + j>>)
                              - At(T, pre \o <<r, c + j>>)
                              + At(T, pre \o <<r, c>>)
                              - At(T, pre \o <<r + i, c>>)
                        /\ call.cumsum =>
                              RetAt(idx) = RectSum(grid, pre, r + 1, c + 1, i, j)

\* a batch of grids that are not all ones, a box with different extents that
\* leaves at least two rows and two columns; the last cell of the result is
\* the sum of the box that ends in the grid's last cell
C12_Witness ==
    /\ FittingBoxCase
    /\ call.cumsum
    /\ Len(grid.shape) = 3
    /\ ~AllOnes(grid)
    /\ call.box.kind = "pair"
    /\ call.box.v[1] # call.box.v[2]
    /\ ret.kind = "array"
    /\ ret.shape[2] >= 2
    /\ ret.shape[3] >= 2
    /\ RetAt(<<0, ret.shape[2] - 1, ret.shape[3] - 1>>) =
          RectSum(grid, <<0>>, grid.shape[2] - call.box.v[1],
                  grid.shape[3] - call.box.v[2], call.box.v[1], call.box.v[2])
    /\ RetAt(<<0, 0, 0>>) > 0

====
